---- MODULE Spec2Model ----
(***************************************************************************)
(* Values of the eclisp interpreter (src/lang/value.go): classification of *)
(* a token into a typed value (getValue), conversion between value types   *)
(* (to), rendering (Str), variable resolution (getVarValue) and wrapping   *)
(* of a parse subtree (newASTValue).                                       *)
(*                                                                         *)
(* Strings and tokens are sequences of one-character strings.  Integers    *)
(* are sign and magnitude, the magnitude a little-endian sequence of       *)
(* 16-bit limbs without high zero limbs, so that 64-bit and arbitrary      *)
(* precision values are exact.                                             *)
(***************************************************************************)
EXTENDS Integers, Sequences, FiniteSets, TLC

VARIABLES token, val, err, recv, target, op, env, node, panicked

vars == <<token, val, err, recv, target, op, env, node, panicked>>

\* ---------------------------------------------------------------- bounds

\* Longest token enumerated over Alphabet.
MaxLen == 3

\* Most children of a parse-tree node.
MaxChildren == 2

\* Most variable bindings and most operator bindings of an environment.
MaxBindings == 2

\* ------------------------------------------------------------ characters

Lower == <<"a","b","c","d","e","f","g","h","i","j","k","l","m",
           "n","o","p","q","r","s","t","u","v","w","x","y","z">>

Upper == <<"A","B","C","D","E","F","G","H","I","J","K","L","M",
           "N","O","P","Q","R","S","T","U","V","W","X","Y","Z">>

Digits == <<"0","1","2","3","4","5","6","7","8","9">>

IndexOf(seq, c) == IF \E i \in 1..Len(seq) : seq[i] = c
                   THEN CHOOSE i \in 1..Len(seq) : seq[i] = c
                   ELSE 0

Range(seq) == {seq[i] : i \in 1..Len(seq)}

DigitSet == Range(Digits)

LetterSet == Range(Lower) \cup Range(Upper)

IsDigit(c) == c \in DigitSet

IsLetter(c) == c \in LetterSet

IsAlnum(c) == IsLetter(c) \/ IsDigit(c)

\* strconv's lower(c): c | ('x' - 'X').
LowerOf == [c \in LetterSet |->
               IF IndexOf(Upper, c) # 0 THEN Lower[IndexOf(Upper, c)] ELSE c]

ToLower(c) == IF c \in LetterSet THEN LowerOf[c] ELSE c

DigitChar(d) == Digits[d + 1]

\* The digit value strconv.ParseUint and big.nat.scan give a character:
\* '0'..'9' are 0..9, letters of either case are 10..35, anything else is
\* no digit of any base.
NoDigit == 99

DigitOf == [c \in DigitSet \cup LetterSet |->
               IF c \in DigitSet THEN IndexOf(Digits, c) - 1
               ELSE IndexOf(Lower, LowerOf[c]) + 9]

CharDigit(c) == IF c \in DOMAIN DigitOf THEN DigitOf[c] ELSE NoDigit

SubSeqFrom(s, i) == SubSeq(s, i, Len(s))

\* ------------------------------------------------------------ magnitudes

LimbBase == 256 * 256

RECURSIVE Norm(_)
Norm(mag) ==
    IF mag = <<>> THEN <<>>
    ELSE IF mag[Len(mag)] = 0 THEN Norm(SubSeq(mag, 1, Len(mag) - 1))
    ELSE mag

\* mag * m + c.
RECURSIVE MulAdd(_, _, _)
MulAdd(mag, m, c) ==
    IF mag = <<>> THEN (IF c = 0 THEN <<>> ELSE <<c>>)
    ELSE LET t == Head(mag) * m + c
         IN  <<t % LimbBase>> \o MulAdd(Tail(mag), m, t \div LimbBase)

\* Quotient and remainder of mag by the small divisor d.
RECURSIVE DivSmall(_, _)
DivSmall(mag, d) ==
    IF mag = <<>> THEN [q |-> <<>>, r |-> 0]
    ELSE LET hi  == DivSmall(Tail(mag), d)
             cur == hi.r * LimbBase + Head(mag)
         IN  [q |-> Norm(<<cur \div d>> \o hi.q), r |-> cur % d]

\* -1, 0, 1 as a < b, a = b, a > b.
RECURSIVE CmpMag(_, _)
CmpMag(a, b) ==
    IF Len(a) # Len(b) THEN (IF Len(a) < Len(b) THEN -1 ELSE 1)
    ELSE IF a = <<>> THEN 0
    ELSE IF a[Len(a)] # b[Len(b)]
         THEN (IF a[Len(a)] < b[Len(b)] THEN -1 ELSE 1)
    ELSE CmpMag(SubSeq(a, 1, Len(a) - 1), SubSeq(b, 1, Len(b) - 1))

\* The value of a digit string in the given base.
RECURSIVE MagOfDigits(_, _, _)
MagOfDigits(ds, base, acc) ==
    IF ds = <<>> THEN acc
    ELSE MagOfDigits(Tail(ds), base, MulAdd(acc, base, CharDigit(Head(ds))))

\* The decimal digits of a magnitude, most significant first; none for 0.
RECURSIVE DecOfMag(_)
DecOfMag(mag) ==
    IF mag = <<>> THEN <<>>
    ELSE LET d == DivSmall(mag, 10)
         IN  DecOfMag(d.q) \o <<DigitChar(d.r)>>

\* 2^63.
Two63 == <<0, 0, 0, 32768>>

\* ------------------------------------------------------ integer literals

\* The literal grammar shared by strconv.ParseInt(s, 0, 64) and
\* big.Int.SetString(s, 0): an optional sign, then a base prefix (0b, 0o,
\* 0x of either case, or a lone leading 0 for octal) and digits of that
\* base, the whole string consumed.  Tokens hold no '_' digit separator.
IntegerBase(body) ==
    IF Len(body) >= 1 /\ body[1] = "0"
    THEN IF Len(body) >= 3 /\ ToLower(body[2]) = "b" THEN [base |-> 2, skip |-> 2]
         ELSE IF Len(body) >= 3 /\ ToLower(body[2]) = "o" THEN [base |-> 8, skip |-> 2]
         ELSE IF Len(body) >= 3 /\ ToLower(body[2]) = "x" THEN [base |-> 16, skip |-> 2]
         ELSE [base |-> 8, skip |-> 1]
    ELSE [base |-> 10, skip |-> 0]

ScanInteger(s) ==
    LET signed == Len(s) >= 1 /\ s[1] \in {"+", "-"}
        neg    == Len(s) >= 1 /\ s[1] = "-"
        body   == IF signed THEN Tail(s) ELSE s
        b      == IntegerBase(body)
        ds     == SubSeqFrom(body, b.skip + 1)
    IN  IF body = <<>> THEN [ok |-> FALSE]
        ELSE IF \E i \in 1..Len(ds) : CharDigit(ds[i]) >= b.base THEN [ok |-> FALSE]
        ELSE [ok |-> TRUE, neg |-> neg, mag |-> MagOfDigits(ds, b.base, <<>>)]

\* strconv.ParseInt(s, 0, 64): the literal must fit the 64-bit signed
\* range, un < 2^63 or, negated, un <= 2^63.
ParseInt(s) ==
    LET r == ScanInteger(s)
    IN  IF ~r.ok THEN [ok |-> FALSE]
        ELSE IF ~r.neg /\ CmpMag(r.mag, Two63) >= 0 THEN [ok |-> FALSE]
        ELSE IF r.neg /\ CmpMag(r.mag, Two63) > 0 THEN [ok |-> FALSE]
        ELSE [ok |-> TRUE, value |-> [neg |-> r.neg /\ r.mag # <<>>, mag |-> r.mag]]

\* big.Int.SetString(s, 0): no bound on the magnitude; zero is not negative.
BigSetString(s) ==
    LET r == ScanInteger(s)
    IN  IF ~r.ok THEN [ok |-> FALSE]
        ELSE [ok |-> TRUE, value |-> [neg |-> r.neg /\ r.mag # <<>>, abs |-> r.mag]]

\* strconv.FormatInt(v, 10).
FormatInt(v) ==
    IF v.mag = <<>> THEN <<"0">>
    ELSE (IF v.neg THEN <<"-">> ELSE <<>>) \o DecOfMag(v.mag)

\* big.Int.String().
BigString(b) ==
    IF b.abs = <<>> THEN <<"0">>
    ELSE (IF b.neg THEN <<"-">> ELSE <<>>) \o DecOfMag(b.abs)

\* -------------------------------------------------------------- floats
\* A float64 is named by the shortest decimal that rounds to it: sign,
\* significant digits without leading or trailing zeros, and the decimal
\* exponent dp, the value being 0.digs * 10^dp (strconv's decimalSlice);
\* zero has no digits.  The naming is one to one for decimals of at most 15
\* significant digits in the normal range, which is where the tokens of
\* this model and the integers below 2^53 lie.

RECURSIVE StripLeadingZeros(_)
StripLeadingZeros(ds) ==
    IF ds # <<>> /\ Head(ds) = "0" THEN StripLeadingZeros(Tail(ds)) ELSE ds

RECURSIVE StripTrailingZeros(_)
StripTrailingZeros(ds) ==
    IF ds # <<>> /\ ds[Len(ds)] = "0"
    THEN StripTrailingZeros(SubSeq(ds, 1, Len(ds) - 1))
    ELSE ds

\* The decimal exponent of readFloat: at most 10000 in magnitude.
RECURSIVE ExpOfDigits(_, _)
ExpOfDigits(ds, e) ==
    IF ds = <<>> THEN e
    ELSE ExpOfDigits(Tail(ds), IF e < 10000 THEN e * 10 + CharDigit(Head(ds)) ELSE e)

\* Zero-padded comparison of two digit strings read as fractions 0.a, 0.b.
RECURSIVE FracGE(_, _)
FracGE(a, b) ==
    IF b = <<>> THEN TRUE
    ELSE IF a = <<>> THEN StripLeadingZeros(b) = <<>>
    ELSE IF Head(a) # Head(b) THEN CharDigit(Head(a)) > CharDigit(Head(b))
    ELSE FracGE(Tail(a), Tail(b))

\* Half way between the largest float64 and 2^1024 is 0.17976931348623158e309:
\* a decimal at or above it is out of range.
MaxFloatHalfway == <<"1","7","9","7","6","9","3","1","3","4","8","6","2","3","1","5","8">>

FloatZero(neg) == [neg |-> neg, digs |-> <<>>, dp |-> 0]

\* The length of the mantissa readFloat consumes: digits and at most one '.'.
MantissaEnd(body) ==
    LET Good(k) == /\ \A i \in 1..k : IsDigit(body[i]) \/ body[i] = "."
                   /\ Cardinality({i \in 1..k : body[i] = "."}) <= 1
    IN  CHOOSE k \in 0..Len(body) :
            Good(k) /\ \A j \in (k + 1)..Len(body) : ~Good(j)

\* strconv.ParseFloat(s, 64) on decimal literals.  A hexadecimal mantissa
\* needs a 'p' exponent and the words inf, infinity and nan need letters
\* that no token of this model holds; such literals are rejected here.
ParseFloat(s) ==
    LET signed == Len(s) >= 1 /\ s[1] \in {"+", "-"}
        neg    == Len(s) >= 1 /\ s[1] = "-"
        body   == IF signed THEN Tail(s) ELSE s
        hex    == Len(body) > 2 /\ body[1] = "0" /\ ToLower(body[2]) = "x"
        m      == MantissaEnd(body)
        mant   == SubSeq(body, 1, m)
        dot    == IndexOf(mant, ".")
        ipart  == IF dot = 0 THEN mant ELSE SubSeq(mant, 1, dot - 1)
        fpart  == IF dot = 0 THEN <<>> ELSE SubSeqFrom(mant, dot + 1)
        all    == ipart \o fpart
        sig    == StripLeadingZeros(all)
        rest   == SubSeqFrom(body, m + 1)
        hasExp == rest # <<>> /\ ToLower(rest[1]) = "e"
        esgn   == Len(rest) >= 2 /\ rest[2] \in {"+", "-"}
        eds    == IF esgn THEN SubSeqFrom(rest, 3) ELSE SubSeqFrom(rest, 2)
        e      == IF hasExp
                  THEN (IF esgn /\ rest[2] = "-" THEN -1 ELSE 1) * ExpOfDigits(eds, 0)
                  ELSE 0
        dp     == Len(ipart) - (Len(all) - Len(sig)) + e
        digs   == StripTrailingZeros(sig)
    IN  IF body = <<>> \/ hex THEN [ok |-> FALSE]
        ELSE IF all = <<>> THEN [ok |-> FALSE]
        ELSE IF rest # <<>> /\ ~hasExp THEN [ok |-> FALSE]
        ELSE IF hasExp /\ (eds = <<>> \/ \E i \in 1..Len(eds) : ~IsDigit(eds[i]))
             THEN [ok |-> FALSE]
        ELSE IF digs = <<>> \/ dp < -323 THEN [ok |-> TRUE, value |-> FloatZero(neg)]
        ELSE IF dp > 309 \/ (dp = 309 /\ FracGE(digs, MaxFloatHalfway))
             THEN [ok |-> FALSE]
        ELSE [ok |-> TRUE, value |-> [neg |-> neg, digs |-> digs, dp |-> dp]]

\* The decimal digits of a natural number; none for 0.
RECURSIVE DecOfNat(_)
DecOfNat(n) ==
    IF n = 0 THEN <<>> ELSE DecOfNat(n \div 10) \o <<DigitChar(n % 10)>>

\* strconv's %e: d.ddde+XX, the exponent of at least two digits.
FmtE(f) ==
    LET nd  == Len(f.digs)
        exp == IF nd = 0 THEN 0 ELSE f.dp - 1
        ax  == IF exp < 0 THEN -exp ELSE exp
    IN  (IF f.neg THEN <<"-">> ELSE <<>>)
        \o <<IF nd = 0 THEN "0" ELSE f.digs[1]>>
        \o (IF nd > 1 THEN <<".">> \o SubSeqFrom(f.digs, 2) ELSE <<>>)
        \o <<"e", IF exp < 0 THEN "-" ELSE "+">>
        \o (IF ax < 10 THEN <<"0">> ELSE <<>>)
        \o (IF ax = 0 THEN <<"0">> ELSE DecOfNat(ax))

\* strconv's %f with the precision of the shortest digits.
FmtF(f) ==
    LET nd   == Len(f.digs)
        prec == IF nd > f.dp THEN nd - f.dp ELSE 0
        At(j) == IF 1 <= j /\ j <= nd THEN f.digs[j] ELSE "0"
    IN  (IF f.neg THEN <<"-">> ELSE <<>>)
        \o (IF f.dp > 0 THEN [i \in 1..f.dp |-> At(i)] ELSE <<"0">>)
        \o (IF prec > 0 THEN <<".">> \o [i \in 1..prec |-> At(f.dp + i)] ELSE <<>>)

\* The exponent at which the shortest %g turns to %e.
ShortestEprec == 6

\* strconv.FormatFloat(v, 'g', -1, 64): %e when the decimal exponent is
\* below -4 or at least 6, %f otherwise.
FormatFloat(f) ==
    LET exp == f.dp - 1
    IN  IF exp < -4 \/ exp >= ShortestEprec THEN FmtE(f) ELSE FmtF(f)

\* float64(v) of an int64 below 2^53 in magnitude, where it is exact.
ExactInFloat(v) == CmpMag(v.mag, <<0, 0, 0, 32>>) < 0

FloatOfInt(v) ==
    LET ds == DecOfMag(v.mag)
    IN  IF ds = <<>> THEN FloatZero(FALSE)
        ELSE [neg |-> v.neg, digs |-> StripTrailingZeros(ds), dp |-> Len(ds)]

\* --------------------------------------------------------------- values

stringType == "stringType"

intType == "intType"

bigIntType == "bigIntType"

floatType == "floatType"

varType == "varType"

boolType == "boolType"

astType == "astType"

ValueTypes == {stringType, intType, bigIntType, floatType, varType, boolType, astType}

\* The nil Value and the nil error.
Nil == [type |-> "nil"]

NoErr == <<>>

typeConvError(from, to) == <<"Cannot convert ", from, " to ", to>>

Failed(e) == [val |-> Nil, err |-> e]

Returned(v) == [val |-> v, err |-> NoErr]

\* ---- stringValue

stringTo(v, targetType) ==
    IF targetType = stringType THEN Returned(v)
    ELSE Failed(typeConvError(stringType, targetType))

stringStr(v) == v.value

stringOfType(targetValue) ==
    LET valLen == Len(targetValue)
    IN  IF valLen < 2 THEN FALSE
        ELSE \/ targetValue[1] = "'" /\ targetValue[valLen] = "'"
             \/ targetValue[1] = "\"" /\ targetValue[valLen] = "\""

stringNewValueStripped(str) ==
    [type |-> stringType, value |-> SubSeq(str, 2, Len(str) - 1)]

stringNewValue(str) == [type |-> stringType, value |-> str]

\* ---- intValue

\* (*big.Int).SetInt64(x): sign and magnitude of x; the magnitude of the
\* least int64 is 2^63.
BigSetInt64(x) == [neg |-> x.neg, abs |-> x.mag]

BigSetUint64OfInt64(x) ==
    [neg |-> FALSE,
     abs |-> IF x.neg
             THEN Norm(SubSeq(MulAdd([i \in 1..4 |->
                          65535 - (IF i <= Len(x.mag) THEN x.mag[i] ELSE 0)], 1, 1), 1, 4))
             ELSE x.mag]

intToUnsigned(v, targetType) ==
    IF targetType = intType THEN Returned(v)
    ELSE IF targetType = bigIntType
         THEN Returned([type |-> bigIntType, value |-> BigSetUint64OfInt64(v.value)])
    ELSE IF targetType = floatType
         THEN Returned([type |-> floatType, value |-> FloatOfInt(v.value)])
    ELSE Failed(typeConvError(intType, targetType))

intTo(v, targetType) ==
    IF targetType = intType THEN Returned(v)
    ELSE IF targetType = bigIntType
         THEN Returned([type |-> bigIntType, value |-> BigSetInt64(v.value)])
    ELSE IF targetType = floatType
         THEN Returned([type |-> floatType, value |-> FloatOfInt(v.value)])
    ELSE Failed(typeConvError(intType, targetType))

intOfType(targetValue) == ParseInt(targetValue).ok

intStr(v) == FormatInt(v.value)

intNewValue(str) ==
    LET r == ParseInt(str)
    IN  IF ~r.ok THEN Nil ELSE [type |-> intType, value |-> r.value]

\* ---- bigIntValue

\* The int64 with the bit pattern of the uint64 u: u itself below 2^63,
\* u - 2^64 from there on.
Uint64ToInt64(u) ==
    IF CmpMag(u, Two63) < 0 THEN [neg |-> FALSE, mag |-> u]
    ELSE [neg |-> TRUE,
          mag |-> Norm(SubSeq(MulAdd([i \in 1..4 |->
                          65535 - (IF i <= Len(u) THEN u[i] ELSE 0)], 1, 1), 1, 4))]

\* -x in int64 arithmetic: the least int64 and 0 are their own negations.
NegInt64(x) ==
    IF x.mag = <<>> \/ (x.neg /\ x.mag = Two63) THEN x
    ELSE [neg |-> ~x.neg, mag |-> x.mag]

\* (*big.Int).Int64(): the low 64 bits of the magnitude as an int64,
\* negated when the big integer is negative.
BigInt64(b) ==
    LET low == Norm(SubSeq(b.abs, 1, IF Len(b.abs) < 4 THEN Len(b.abs) ELSE 4))
        v   == Uint64ToInt64(low)
    IN  IF b.neg THEN NegInt64(v) ELSE v

\* (*big.Int).Cmp.
BigCmp(x, y) ==
    IF x.neg # y.neg THEN (IF x.neg THEN -1 ELSE 1)
    ELSE IF x.neg THEN -CmpMag(x.abs, y.abs)
    ELSE CmpMag(x.abs, y.abs)

bigIntToTruncating(v, targetType) ==
    IF targetType = intType
    THEN Returned([type |-> intType, value |-> BigInt64(v.value)])
    ELSE Failed(typeConvError(bigIntType, targetType))

bigIntTo(v, targetType) ==
    LET intRep == BigInt64(v.value)
    IN  IF targetType = intType /\ BigCmp(v.value, BigSetInt64(intRep)) = 0
        THEN Returned([type |-> intType, value |-> intRep])
        ELSE Failed(typeConvError(bigIntType, targetType))

bigIntOfType(targetValue) == BigSetString(targetValue).ok

bigIntStr(v) == BigString(v.value)

bigIntNewValue(str) ==
    LET r == BigSetString(str)
    IN  IF ~r.ok THEN Nil ELSE [type |-> bigIntType, value |-> r.value]

\* ---- floatValue

floatToWithInt(v, targetType) ==
    IF targetType = floatType THEN Returned(v)
    ELSE IF targetType = intType /\ v.value.digs = <<>>
         THEN Returned([type |-> intType, value |-> [neg |-> FALSE, mag |-> <<>>]])
    ELSE Failed(typeConvError(floatType, targetType))

floatTo(v, targetType) ==
    IF targetType = floatType THEN Returned(v)
    ELSE Failed(typeConvError(floatType, targetType))

floatOfType(targetValue) == ParseFloat(targetValue).ok

floatStrF(v) == FmtF(v.value)

floatStr(v) == FormatFloat(v.value)

floatNewValue(str) ==
    LET r == ParseFloat(str)
    IN  IF ~r.ok THEN Nil ELSE [type |-> floatType, value |-> r.value]

\* ---- varValue

varTo(v, targetType) == Failed(typeConvError(varType, targetType))

\* s[i..j] matches [a-zA-Z]+[a-zA-Z0-9]*.
MatchesVarPattern(s, i, j) ==
    \E k \in i..j : /\ \A n \in i..k : IsLetter(s[n])
                    /\ \A n \in (k + 1)..j : IsAlnum(s[n])

\* regexp.MatchString reports whether the string CONTAINS a match of the
\* pattern; the pattern has no ^ or $.
varOfType(targetValue) ==
    \E i \in 1..Len(targetValue) : \E j \in i..Len(targetValue) :
        MatchesVarPattern(targetValue, i, j)

varStr(v) == v.value

varNewValue(str) == [type |-> varType, value |-> str, varName |-> str]

\* ---- boolValue

boolTo(v, targetType) == Failed(typeConvError(boolType, targetType))

boolOfType(targetValue) ==
    targetValue = <<"t","r","u","e">> \/ targetValue = <<"f","a","l","s","e">>

boolStr(v) == IF v.value = TRUE THEN <<"t","r","u","e">> ELSE <<"f","a","l","s","e">>

boolNewValue(str) ==
    [type |-> boolType, value |-> IF str = <<"t","r","u","e">> THEN TRUE ELSE FALSE]

\* ---- astValue

astTo(v, targetType) == Failed(typeConvError(astType, targetType))

astOfType(targetValue) == FALSE

astNewValue(str) == Nil

\* newASTValue(parentNode): children[1:] of a slice of length 0 is a slice
\* bounds panic, which ends the call without a value.
newASTValue(parentNode) ==
    IF Len(parentNode.children) < 1
    THEN [panic |-> TRUE, val |-> Nil]
    ELSE [panic |-> FALSE,
          val   |-> [type |-> astType,
                     astNodes |-> SubSeqFrom(parentNode.children, 2),
                     parentASTNode |-> parentNode]]

\* ---- the Value interface, dispatched on the dynamic type

ofType(t, targetValue) ==
    CASE t = stringType -> stringOfType(targetValue)
      [] t = intType    -> intOfType(targetValue)
      [] t = bigIntType -> bigIntOfType(targetValue)
      [] t = floatType  -> floatOfType(targetValue)
      [] t = varType    -> varOfType(targetValue)
      [] t = boolType   -> boolOfType(targetValue)
      [] t = astType    -> astOfType(targetValue)

newValue(t, str) ==
    CASE t = stringType -> stringNewValue(str)
      [] t = intType    -> intNewValue(str)
      [] t = bigIntType -> bigIntNewValue(str)
      [] t = floatType  -> floatNewValue(str)
      [] t = varType    -> varNewValue(str)
      [] t = boolType   -> boolNewValue(str)
      [] t = astType    -> astNewValue(str)

to(v, targetType) ==
    CASE v.type = stringType -> stringTo(v, targetType)
      [] v.type = intType    -> intTo(v, targetType)
      [] v.type = bigIntType -> bigIntTo(v, targetType)
      [] v.type = floatType  -> floatTo(v, targetType)
      [] v.type = varType    -> varTo(v, targetType)
      [] v.type = boolType   -> boolTo(v, targetType)
      [] v.type = astType    -> astTo(v, targetType)

\* Str of the values whose rendering is this file's; astValue.Str is the
\* parse tree's printer.
Str(v) ==
    CASE v.type = stringType -> stringStr(v)
      [] v.type = intType    -> intStr(v)
      [] v.type = bigIntType -> bigIntStr(v)
      [] v.type = floatType  -> floatStr(v)
      [] v.type = varType    -> varStr(v)
      [] v.type = boolType   -> boolStr(v)

\* ------------------------------------------------------------ classifier

\* The registry, in its order of precedence.
builtinTypes == <<stringType, intType, bigIntType, floatType, boolType, varType>>

RECURSIVE FirstOfType(_, _)
FirstOfType(types, tok) ==
    IF types = <<>> THEN Failed(<<"Could not get type for token: ", tok>>)
    ELSE IF ofType(Head(types), tok) THEN Returned(newValue(Head(types), tok))
    ELSE FirstOfType(Tail(types), tok)

RECURSIVE LastOfType(_, _)
LastOfType(types, tok) ==
    IF types = <<>> THEN Failed(<<"Could not get type for token: ", tok>>)
    ELSE IF ofType(types[Len(types)], tok)
         THEN Returned(newValue(types[Len(types)], tok))
    ELSE LastOfType(SubSeq(types, 1, Len(types) - 1), tok)

getValueLastMatch(e, tok) == LastOfType(builtinTypes, tok)

getValue(e, tok) == FirstOfType(builtinTypes, tok)

\* -------------------------------------------------------------- resolver

\* m[k] of a Go map: the zero value, nil, for a key that is absent.
MapGet(m, k) == IF k \in DOMAIN m THEN m[k] ELSE Nil

getVarValueOpFirst(e, varVal) ==
    IF varVal # Nil /\ varVal.type = varType
    THEN LET varName == varVal.varName
         IN  IF MapGet(e.opMap, varName) # Nil THEN Returned(varVal)
             ELSE IF MapGet(e.varMap, varName) # Nil
                  THEN Returned(MapGet(e.varMap, varName))
             ELSE Failed(<<"Undefined variable: ", varName>>)
    ELSE Failed(<<"Error while resolving variable.">>)

getVarValue(e, varVal) ==
    IF varVal # Nil /\ varVal.type = varType
    THEN LET varName == varVal.varName
         IN  IF MapGet(e.varMap, varName) # Nil
             THEN Returned(MapGet(e.varMap, varName))
             ELSE IF MapGet(e.opMap, varName) # Nil THEN Returned(varVal)
             ELSE Failed(<<"Undefined variable: ", varName>>)
    ELSE Failed(<<"Error while resolving variable.">>)

\* ---------------------------------------------------------------- inputs

Alphabet == {"0", "1", "9", "-", "+", ".", "e", "x", "a", "'", "\"", "("}

ShortTokens == UNION {[1..n -> Alphabet] : n \in 0..MaxLen}

\* Hexadecimal literals around 2^63 and 2^64: a sign, 0x, an optional
\* seventeenth digit and four groups of four digits.
HexGroups == {<<"0","0","0","0">>, <<"7","f","f","f">>, <<"8","0","0","0">>,
              <<"f","f","f","f">>}

HexTokens ==
    {sgn \o <<"0", "x">> \o top \o g[1] \o g[2] \o g[3] \o g[4] :
        sgn \in {<<>>, <<"-">>}, top \in {<<>>, <<"1">>},
        g \in [1..4 -> HexGroups]}

NamedTokens ==
    { <<"5">>,
      <<"4","2">>,
      <<"-","1","7">>,
      <<"3",".","1","4">>,
      <<"t","r","u","e">>,
      <<"f","a","l","s","e">>,
      <<"9","9","9","9","9","9","9","9","9","9","9","9","9","9","9","9","9","9","9","9">>,
      <<"'","i","t","'","'","s","'">>,
      <<"\"","h","e","l","l","o","\"">>,
      <<"a","b","c","1","2","3">>,
      <<"0","x","1","F">>,
      <<"1","a">>,
      <<"a","-","b">>,
      <<"(","x">>,
      <<"h","e","l","l","o">>,
      <<"1","e","6">>,
      <<"1","0","0","0","0","0","0">>,
      <<"9","2","2","3","3","7","2","0","3","6","8","5","4","7","7","5","8","0","7">>,
      <<"9","2","2","3","3","7","2","0","3","6","8","5","4","7","7","5","8","0","8">>,
      <<"-","9","2","2","3","3","7","2","0","3","6","8","5","4","7","7","5","8","0","8">>,
      <<"-","9","2","2","3","3","7","2","0","3","6","8","5","4","7","7","5","8","0","9">> }

Tokens == ShortTokens \cup HexTokens \cup NamedTokens

\* Parse-tree nodes: the ordered children of a parent.
Leaves == {"a", "b"}

Nodes == {[children |-> c] : c \in UNION {[1..n -> Leaves] : n \in 0..MaxChildren}}

NoNode == [children |-> <<"none">>]

\* Names and tokens of the programs that bind and resolve variables.
Names == {<<"x">>, <<"y">>, <<"z">>}

EnvTokens == Names \cup {<<"5">>, <<"t","r","u","e">>}

\* ----------------------------------------------------------------- state

Init ==
    /\ token = <<>>
    /\ val = Nil
    /\ err = NoErr
    /\ recv = Nil
    /\ target = "none"
    /\ op = "init"
    /\ env = [varMap |-> <<>>, opMap |-> <<>>]
    /\ node = NoNode
    /\ panicked = FALSE

\* getValue(env, tok) for a token of the set T.
Classify(T) ==
    \E tok \in T :
        LET r == getValue(env, tok)
        IN  /\ ~panicked
            /\ token' = tok
            /\ val' = r.val
            /\ err' = r.err
            /\ recv' = Nil
            /\ target' = "none"
            /\ op' = "getValue"
            /\ UNCHANGED <<env, node, panicked>>

\* One token is classified in a run; its value is then converted and rendered.
GetValue == op = "init" /\ Classify(Tokens)

\* val.to(targetType) on the current value.  Int to Float is followed where
\* float64(v) is exact, below 2^53 in magnitude.
To ==
    \E targetType \in ValueTypes :
        LET r == to(val, targetType)
        IN  /\ ~panicked
            /\ val # Nil
            /\ (val.type = intType /\ targetType = floatType) => ExactInFloat(val.value)
            /\ recv' = val
            /\ target' = targetType
            /\ val' = r.val
            /\ err' = r.err
            /\ op' = "to"
            /\ token' = <<>>
            /\ UNCHANGED <<env, node, panicked>>

\* getValue(env, val.Str()): the rendering of the current value read back.
StrGetValue ==
    /\ ~panicked
    /\ val # Nil
    /\ val.type # astType
    /\ LET s == Str(val)
           r == getValue(env, s)
       IN  /\ token' = s
           /\ recv' = val
           /\ val' = r.val
           /\ err' = r.err
    /\ target' = "none"
    /\ op' = "Str"
    /\ UNCHANGED <<env, node, panicked>>

\* newASTValue(parentNode), on a parse tree handed over by the parser.
NewASTValue ==
    \E n \in Nodes :
        LET r == newASTValue(n)
        IN  /\ ~panicked
            /\ op = "init"
            /\ node' = n
            /\ panicked' = r.panic
            /\ val' = r.val
            /\ err' = NoErr
            /\ recv' = Nil
            /\ target' = "none"
            /\ op' = "newASTValue"
            /\ token' = <<>>
            /\ UNCHANGED env

Next == GetValue \/ To \/ StrGetValue \/ NewASTValue

Spec == Init /\ [][Next]_vars

\* ---- the environment: the evaluator binds, getVarValue resolves

Lex == Classify(EnvTokens)

\* env.varMap[name] = val, the evaluator binding an evaluated value.
Define ==
    \E name \in Names :
        /\ val # Nil
        /\ val.type # varType
        /\ name \in DOMAIN env.varMap \/ Cardinality(DOMAIN env.varMap) < MaxBindings
        /\ env' = [env EXCEPT !.varMap = (name :> val) @@ @]
        /\ op' = "define"
        /\ UNCHANGED <<token, val, err, recv, target, node, panicked>>

\* env.opMap[name] = an operator definition.
DefineOp ==
    \E name \in Names :
        /\ name \notin DOMAIN env.opMap
        /\ Cardinality(DOMAIN env.opMap) < MaxBindings
        /\ env' = [env EXCEPT !.opMap = (name :> [type |-> "operator", opName |-> name]) @@ @]
        /\ op' = "defineOp"
        /\ UNCHANGED <<token, val, err, recv, target, node, panicked>>

\* getVarValue(env, val).
GetVarValue ==
    LET r == getVarValue(env, val)
    IN  /\ recv' = val
        /\ val' = r.val
        /\ err' = r.err
        /\ op' = "getVarValue"
        /\ target' = "none"
        /\ token' = <<>>
        /\ UNCHANGED <<env, node, panicked>>

NextResolve == Lex \/ Define \/ DefineOp \/ GetVarValue

SpecResolve == Init /\ [][NextResolve]_vars

\* ---------------------------------------------------------------- claims

\* Values of the same type and payload.
Same(a, b) == a.type = b.type /\ a = b

\* A state that holds the result of getValue on `token`.
Classified == op \in {"getValue", "Str"}

\* The order of precedence the classifier is to follow.
ClaimOrder == <<stringType, intType, bigIntType, floatType, boolType, varType>>

Accepting(tok) == {i \in 1..Len(ClaimOrder) : ofType(ClaimOrder[i], tok)}

\* b lies in the 64-bit signed range [-2^63, 2^63 - 1].
InInt64Range(b) ==
    IF b.neg THEN CmpMag(b.abs, Two63) <= 0 ELSE CmpMag(b.abs, Two63) < 0

\* The whole token is a letter followed by letters and digits.
IsIdentifier(tok) ==
    /\ Len(tok) >= 1
    /\ IsLetter(tok[1])
    /\ \A i \in 2..Len(tok) : IsAlnum(tok[i])

\* C1: getValue returns the value built by the first recognizer, in the
\* order String, Int, BigInt, Float, Bool, Var, that accepts the token, and
\* fails with the unrecognized-token error exactly when none accepts it;
\* "5" is an Int, an integer literal beyond 64 bits a BigInt, "3.14" a
\* Float, "true" and "false" are Bool.
C1_ClassifyFirstMatch ==
    Classified =>
        /\ IF Accepting(token) = {}
           THEN val = Nil /\ err = <<"Could not get type for token: ", token>>
           ELSE LET first == CHOOSE i \in Accepting(token) :
                                 \A j \in Accepting(token) : i <= j
                IN  /\ err = NoErr
                    /\ val # Nil
                    /\ val.type = ClaimOrder[first]
                    /\ val = newValue(ClaimOrder[first], token)
        /\ token = <<"5">> =>
               (val.type = intType /\ val.value = [neg |-> FALSE, mag |-> <<5>>])
        /\ token = <<"9","9","9","9","9","9","9","9","9","9","9","9","9","9","9","9","9","9","9","9">> => val.type = bigIntType
        /\ token = <<"3",".","1","4">> => val.type = floatType
        /\ token = <<"t","r","u","e">> => (val.type = boolType /\ val.value = TRUE)
        /\ token = <<"f","a","l","s","e">> => (val.type = boolType /\ val.value = FALSE)

\* "true" is accepted by the Bool and the Var recognizers and is a Bool.
C1_Witness ==
    /\ op = "getValue"
    /\ token = <<"t","r","u","e">>
    /\ varOfType(token)
    /\ val.type = boolType

\* C2: every value converts to its own type, giving the value itself.
C2_SelfConversion ==
    (op = "to" /\ target = recv.type) => (err = NoErr /\ Same(val, recv))

\* C3: a BigInt converts to Int exactly when it lies in the 64-bit signed
\* range; the Int then has its value, and otherwise the conversion fails
\* with an error and no value.
C3_BigIntToInt ==
    (op = "to" /\ recv.type = bigIntType /\ target = intType) =>
        IF InInt64Range(recv.value)
        THEN /\ err = NoErr
             /\ val.type = intType
             /\ val.value = [neg |-> recv.value.neg, mag |-> recv.value.abs]
        ELSE /\ val = Nil
             /\ err = <<"Cannot convert ", bigIntType, " to ", intType>>

\* A BigInt of more than 64 bits whose low 64 bits are an int64 is refused.
C3_Witness ==
    /\ op = "to"
    /\ recv.type = bigIntType
    /\ target = intType
    /\ Len(recv.value.abs) = 5
    /\ recv.value.abs[4] < 32768
    /\ val = Nil
    /\ err # NoErr

\* The conversions that are defined between distinct types.
Convertible == {<<intType, bigIntType>>, <<intType, floatType>>, <<bigIntType, intType>>}

\* C4: a conversion between distinct types other than Int to BigInt, Int
\* to Float and BigInt to Int fails with no value and an error that names
\* the source and the target type.
C4_UndefinedConversionFails ==
    (op = "to" /\ target # recv.type /\ <<recv.type, target>> \notin Convertible) =>
        /\ val = Nil
        /\ err = <<"Cannot convert ", recv.type, " to ", target>>

\* The Float 0 is not converted to Int.
C4_Witness ==
    /\ op = "to"
    /\ recv.type = floatType
    /\ recv.value.digs = <<>>
    /\ target = intType
    /\ val = Nil
    /\ err = <<"Cannot convert ", floatType, " to ", intType>>

\* C5: getVarValue of a Var named n returns the value bound to n when n is
\* a variable, also when n is an operator too; else the Var itself when n
\* is an operator; else no value and the error "Undefined variable: n".
C5_ResolveOrder ==
    (op = "getVarValue" /\ recv # Nil /\ recv.type = varType) =>
        IF recv.varName \in DOMAIN env.varMap
        THEN Same(val, env.varMap[recv.varName]) /\ err = NoErr
        ELSE IF recv.varName \in DOMAIN env.opMap
             THEN Same(val, recv) /\ err = NoErr
        ELSE val = Nil /\ err = <<"Undefined variable: ", recv.varName>>

\* A name that is a variable and an operator resolves to the variable's value.
C5_Witness ==
    /\ op = "getVarValue"
    /\ recv # Nil
    /\ recv.type = varType
    /\ recv.varName \in DOMAIN env.varMap
    /\ recv.varName \in DOMAIN env.opMap
    /\ val.type = intType
    /\ Same(val, env.varMap[recv.varName])

LiteralTypes == {stringType, intType, bigIntType, floatType, boolType, varType}

IntegralBelowE6(f) == Len(f.digs) <= f.dp /\ f.dp <= ShortestEprec

RendersAsInt(v) ==
    \/ v.type = bigIntType /\ InInt64Range(v.value)
    \/ v.type = floatType /\ (v.value.digs = <<>> \/ IntegralBelowE6(v.value))

C7_VarWholeToken ==
    Classified =>
        /\ varOfType(token) <=> IsIdentifier(token)
        /\ (val # Nil /\ val.type = varType) => IsIdentifier(token)

\* C8, as claimed: the String built from a quoted token holds the token
\* without its two delimiting quotes.
C8_StringPayloadStripped ==
    (Classified /\ stringOfType(token)) =>
        /\ val.type = stringType
        /\ val.value = SubSeq(token, 2, Len(token) - 1)

\* C8, amended: the String built from a quoted token holds the whole token,
\* the two delimiting quotes included and the interior kept verbatim.
C8_StringPayloadVerbatim ==
    (Classified /\ stringOfType(token)) =>
        /\ val.type = stringType
        /\ val.value = token

\* The token 'it''s'.
C8_Witness ==
    /\ op = "getValue"
    /\ token = <<"'","i","t","'","'","s","'">>
    /\ val.type = stringType
    /\ val.value = token

\* C9: an Int converts to a BigInt of exactly its value, and that BigInt
\* converts back to the Int it came from, over the whole 64-bit range.
C9_IntBigIntRoundTrip ==
    /\ [](   (op = "to" /\ recv.type = intType /\ target = bigIntType)
          => /\ err = NoErr
             /\ val.type = bigIntType
             /\ val.value = [neg |-> recv.value.neg, abs |-> recv.value.mag])
    /\ [][   (/\ op = "to" /\ recv.type = intType /\ target = bigIntType
              /\ op' = "to" /\ recv' = val /\ target' = intType)
          => (err' = NoErr /\ Same(val', recv)) ]_vars

\* -2^63 has come back from its BigInt.
C9_Witness ==
    /\ op = "to"
    /\ target = intType
    /\ recv.type = bigIntType
    /\ recv.value = [neg |-> TRUE, abs |-> Two63]
    /\ val.type = intType
    /\ val.value = [neg |-> TRUE, mag |-> Two63]

\* C10: newASTValue returns, for every parent node, an Ast value of the
\* parent and of its children but the first, none for a parent of at most
\* one child, and never aborts.
C10_WrapSubtreeTotal ==
    op = "newASTValue" =>
        /\ ~panicked
        /\ val.type = astType
        /\ val.parentASTNode = node
        /\ val.astNodes = IF Len(node.children) <= 1 THEN <<>>
                          ELSE Tail(node.children)

====
